---------------------------- MODULE Spec2Model ----------------------------
(***************************************************************************)
(* Model of src/main.py: the Telegram bot "Dusha".                         *)
(*                                                                         *)
(* The program keeps two sqlite tables (facts, messages) and five          *)
(* handlers (start, remember, memory, clear_memory, handle_message).       *)
(* Text is modelled as a sequence of one-character strings so that         *)
(* str.strip() and concatenation are computed, not assumed.                *)
(*                                                                         *)
(* Four specifications are given:                                          *)
(*   SpecStore       the store functions called directly, bounded inputs   *)
(*   Spec            the handlers, run step by step by the event loop      *)
(*   SpecMemory      the memory commands over any stored facts text        *)
(*   SpecConcurrent  the handlers under an Application that dispatches     *)
(*                   updates without waiting for earlier handlers          *)
(***************************************************************************)
EXTENDS Integers, Sequences, FiniteSets

VARIABLES
    messages,   \* table messages: set of rows [id, user_id, role, content]
    seq,        \* sqlite_sequence of messages (AUTOINCREMENT high-water mark)
    facts,      \* table facts: set of rows [user_id, facts]
    cur,        \* frame of the handler that holds the event loop, or Idle
    awaiting,   \* frames suspended at their final await reply_text(...)
    updates,    \* number of updates dispatched to handlers so far
    last,       \* SpecStore: the last store call, with the table it changes as it was before
    added,      \* SpecStore: every add_message call so far, in call order
    written,    \* SpecStore: per user, <<text>> of the latest set_facts call, <<>> when none yet
    concurrent_updates  \* the Application's setting of that name

vars == <<messages, seq, facts, cur, awaiting, updates, last, added, written,
          concurrent_updates>>

---------------------------------------------------------------------------
(* Bounds of the model *)

\* SpecStore: add_message is called at most this many times
MaxRows == 3
\* SpecStore: keep / limit arguments range over 0..MaxKeep
MaxKeep == 2
\* Spec: rows of user 1 already in the database file when the process starts
MaxInit == 21
\* Spec: updates dispatched to handlers in one run
MaxUpdates == 2
\* SpecConcurrent: rows of user 1 in the database file at the start
MaxBacklog == 4
\* Spec, SpecMemory: /remember runs while the stored lines and the new one, with the
\* newline between them, are no longer than this
MaxFactsLen == 3

---------------------------------------------------------------------------
(* Program constants *)

\* a limit that is a multiple of the cadence
SHORT_HISTORY_LIMIT_24 == 20 + 4

SHORT_HISTORY_LIMIT == 20

\* the cadence of "if count % 6 == 0"
FACTS_EVERY == 6

\* SYSTEM_PROMPT, abbreviated to a marker text
SYSTEM_PROMPT == <<"S", "Y", "S">>

\* the literal of the f-string before {facts}: "\n\n<label>:\n", abbreviated
MEMORY_LABEL == <<"\n", "\n", "M", ":", "\n">>

\* the greeting of /start, abbreviated
GREETING == <<"P", "r">>

Users == {1, 2}

Roles == {"user", "assistant"}

---------------------------------------------------------------------------
(* Text *)

Whitespace == {" ", "\n", "\t"}

RECURSIVE LStrip(_)
LStrip(s) ==
    IF s # <<>> /\ Head(s) \in Whitespace THEN LStrip(Tail(s)) ELSE s

RECURSIVE RStrip(_)
RStrip(s) ==
    IF s # <<>> /\ s[Len(s)] \in Whitespace
    THEN RStrip(SubSeq(s, 1, Len(s) - 1))
    ELSE s

\* str.strip()
Strip(s) == RStrip(LStrip(s))

RECURSIVE Reversed(_)
Reversed(s) ==
    IF s = <<>> THEN <<>> ELSE Append(Reversed(Tail(s)), Head(s))

Min(a, b) == IF a <= b THEN a ELSE b

---------------------------------------------------------------------------
(* Fact Store *)

\* SELECT facts FROM facts WHERE user_id=?  ; row[0] if row else ""
get_facts(tbl, user_id) ==
    LET rows == {r \in tbl : r.user_id = user_id}
    IN  IF rows = {} THEN <<>> ELSE (CHOOSE r \in rows : TRUE).facts

\* a plain INSERT that ignores the conflict clause
set_facts_insert_only(tbl, user_id, text) ==
    tbl \cup {[user_id |-> user_id, facts |-> text]}

\* INSERT ... ON CONFLICT(user_id) DO UPDATE SET facts=excluded.facts
set_facts(tbl, user_id, text) ==
    IF \E r \in tbl : r.user_id = user_id
    THEN {IF r.user_id = user_id THEN [r EXCEPT !.facts = text] ELSE r : r \in tbl}
    ELSE tbl \cup {[user_id |-> user_id, facts |-> text]}

---------------------------------------------------------------------------
(* History Store *)

\* INSERT INTO messages(user_id, role, content, ts): the row gets id seq+1.
\* ts is written and never read, so the model does not keep it.
add_message(tbl, sq, user_id, role, content) ==
    tbl \cup {[id |-> sq + 1, user_id |-> user_id, role |-> role, content |-> content]}

MaxIdRow(rows) == CHOOSE r \in rows : \A q \in rows : q.id <= r.id

\* SELECT ... WHERE user_id=? ORDER BY id DESC LIMIT ?  (the rows, newest first)
RECURSIVE OrderDescLimit(_, _)
OrderDescLimit(rows, limit) ==
    IF rows = {} \/ limit <= 0
    THEN <<>>
    ELSE LET r == MaxIdRow(rows)
         IN  <<r>> \o OrderDescLimit(rows \ {r}, limit - 1)

SelectRecent(tbl, user_id, limit) ==
    OrderDescLimit({r \in tbl : r.user_id = user_id}, limit)

\* get_recent_messages without the final reversed(): newest first
get_recent_messages_desc(tbl, user_id, limit) ==
    LET rows == SelectRecent(tbl, user_id, limit)
    IN  [i \in 1..Len(rows) |-> [role |-> rows[i].role, content |-> rows[i].content]]

\* [{"role": r, "content": c} for (r, c) in reversed(rows)]
get_recent_messages(tbl, user_id, limit) ==
    LET rows == Reversed(SelectRecent(tbl, user_id, limit))
    IN  [i \in 1..Len(rows) |-> [role |-> rows[i].role, content |-> rows[i].content]]

\* a DELETE that keeps the keep oldest rows instead of the newest
RECURSIVE OrderAscLimit(_, _)
OrderAscLimit(rows, limit) ==
    IF rows = {} \/ limit <= 0
    THEN <<>>
    ELSE LET r == CHOOSE x \in rows : \A q \in rows : x.id <= q.id
         IN  <<r>> \o OrderAscLimit(rows \ {r}, limit - 1)

trim_history_oldest(tbl, user_id, keep) ==
    LET sel == OrderAscLimit({r \in tbl : r.user_id = user_id}, keep)
        ids == {sel[i].id : i \in 1..Len(sel)}
    IN  {r \in tbl : ~(r.user_id = user_id /\ r.id \notin ids)}

\* a DELETE of the keep oldest rows of the user
trim_history_deletes_oldest(tbl, user_id, keep) ==
    LET sel == OrderAscLimit({r \in tbl : r.user_id = user_id}, keep)
        ids == {sel[i].id : i \in 1..Len(sel)}
    IN  {r \in tbl : ~(r.user_id = user_id /\ r.id \in ids)}

\* a DELETE without user_id=? in its outer WHERE
trim_history_all_users(tbl, user_id, keep) ==
    LET sel == SelectRecent(tbl, user_id, keep)
        ids == {sel[i].id : i \in 1..Len(sel)}
    IN  {r \in tbl : r.id \in ids}

\* DELETE FROM messages WHERE user_id=? AND id NOT IN (SELECT id ... LIMIT ?)
trim_history(tbl, user_id, keep) ==
    LET sel == SelectRecent(tbl, user_id, keep)
        ids == {sel[i].id : i \in 1..Len(sel)}
    IN  {r \in tbl : ~(r.user_id = user_id /\ r.id \notin ids)}

---------------------------------------------------------------------------
(* Prompt Assembler *)

\* a build_messages that tests the raw facts instead of the stripped text
memory_block_unstripped(tbl, user_id) ==
    LET f == get_facts(tbl, user_id)
    IN  IF f # <<>> THEN MEMORY_LABEL \o Strip(f) \o <<"\n">> ELSE <<>>

\* facts = get_facts(user_id).strip(); memory_block = "" or the labelled block
memory_block(tbl, user_id) ==
    LET f == Strip(get_facts(tbl, user_id))
    IN  IF f # <<>> THEN MEMORY_LABEL \o f \o <<"\n">> ELSE <<>>

\* a build_messages that relies on the history for the new text
build_messages_history_only(ftbl, mtbl, user_id, user_text) ==
    <<[role |-> "system", content |-> SYSTEM_PROMPT \o memory_block(ftbl, user_id)]>>
    \o get_recent_messages(mtbl, user_id, SHORT_HISTORY_LIMIT)

\* a build_messages that leaves the history out
build_messages_no_history(ftbl, mtbl, user_id, user_text) ==
    <<[role |-> "system", content |-> SYSTEM_PROMPT \o memory_block(ftbl, user_id)]>>
    \o <<[role |-> "user", content |-> user_text]>>

build_messages(ftbl, mtbl, user_id, user_text) ==
    <<[role |-> "system", content |-> SYSTEM_PROMPT \o memory_block(ftbl, user_id)]>>
    \o get_recent_messages(mtbl, user_id, SHORT_HISTORY_LIMIT)
    \o <<[role |-> "user", content |-> user_text]>>

---------------------------------------------------------------------------
(* Completion Client and Fact Extractor *)

\* A completion is what client.chat.completions.create(...) does: it returns a
\* response whose first choice has the text content (ok), or the call raises or
\* the response has no usable first choice (not ok: resp.choices[0].message
\* .content.strip() raises).
Completion(ok, content) == [ok |-> ok, content |-> content]

\* an ask_ai that answers a failed call with a fixed apology
ask_ai_fallback(ftbl, mtbl, user_id, user_text, completion) ==
    [request |-> build_messages(ftbl, mtbl, user_id, user_text),
     raised  |-> FALSE,
     text    |-> IF completion.ok THEN Strip(completion.content) ELSE <<"s", "o", "r", "r", "y">>]

\* ask_ai: the request it sends, and the stripped reply or the exception
ask_ai(ftbl, mtbl, user_id, user_text, completion) ==
    [request |-> build_messages(ftbl, mtbl, user_id, user_text),
     raised  |-> ~completion.ok,
     text    |-> IF completion.ok THEN Strip(completion.content) ELSE <<>>]

\* update_facts_with_ai: the facts table it leaves, and whether it raised.
\* current_facts only goes into the prompt text.
update_facts_with_ai(ftbl, user_id, completion) ==
    IF completion.ok
    THEN [raised |-> FALSE, facts |-> set_facts(ftbl, user_id, Strip(completion.content))]
    ELSE [raised |-> TRUE, facts |-> ftbl]

\* the extractor call without the try/except around it
try_update_facts_unguarded(ftbl, user_id, completion) ==
    update_facts_with_ai(ftbl, user_id, completion)

\* try: update_facts_with_ai(...)  except Exception: pass
try_update_facts(ftbl, user_id, completion) ==
    [raised |-> FALSE, facts |-> update_facts_with_ai(ftbl, user_id, completion).facts]

\* an extractor run on every turn
should_update_facts_always(count) == TRUE

\* a cadence counted without the two records of the current turn
should_update_facts_before_turn(count) == (count - 2) % FACTS_EVERY = 0

\* if count % 6 == 0
should_update_facts(count) == count % FACTS_EVERY = 0

---------------------------------------------------------------------------
(* Frames of handlers *)

\* The local state of one handler invocation.  pc is the place the handler is at;
\* trace lists the steps it has taken; ask_failed and extract_failed say that the
\* conversational or the extraction completion of this turn was not ok; n0, seq0, messages0 and facts0 are the
\* user's row count, the id counter and the tables when the handler was entered;
\* update_no is the place of its update in the order of dispatch.
Frame(kind, user_id, user_text) ==
    [kind |-> kind, user_id |-> user_id, user_text |-> user_text, pc |-> "received",
     assistant_text |-> <<>>, count |-> 0, extractor_calls |-> 0, trace |-> <<>>,
     raised |-> FALSE, ask_failed |-> FALSE, extract_failed |-> FALSE, request |-> <<>>, reply |-> <<>>,
     n0 |-> Cardinality({r \in messages : r.user_id = user_id}),
     seq0 |-> seq, messages0 |-> messages, facts0 |-> facts, update_no |-> updates + 1]

Idle ==
    [kind |-> "idle", user_id |-> 0, user_text |-> <<>>, pc |-> "idle",
     assistant_text |-> <<>>, count |-> 0, extractor_calls |-> 0, trace |-> <<>>,
     raised |-> FALSE, ask_failed |-> FALSE, extract_failed |-> FALSE, request |-> <<>>, reply |-> <<>>,
     n0 |-> 0, seq0 |-> 0, messages0 |-> {}, facts0 |-> {}, update_no |-> 0]

NoCall == [op |-> "none"]

---------------------------------------------------------------------------
(* SpecStore: the store functions called directly *)

\* (role, content) pairs handed to add_message
StoreMsgInputs ==
    {[role |-> "user", content |-> <<"a">>],
     [role |-> "assistant", content |-> <<"b">>]}

\* texts handed to set_facts
StoreFactInputs == {<<>>, <<" ">>, <<"a", " ">>}

\* texts handed to build_messages
StoreTextInputs == {<<"a">>, <<"b">>}

InitStore ==
    /\ messages = {}
    /\ seq = 0
    /\ facts = {}
    /\ cur = Idle
    /\ awaiting = {}
    /\ updates = 0
    /\ last = NoCall
    /\ added = <<>>
    /\ written = [u \in Users |-> <<>>]
    /\ concurrent_updates = FALSE

StoreAddMessage(u, m) ==
    /\ seq < MaxRows
    /\ messages' = add_message(messages, seq, u, m.role, m.content)
    /\ seq' = seq + 1
    /\ last' = [op |-> "add_message", user_id |-> u, arg |-> m]
    /\ added' = Append(added, [user_id |-> u, role |-> m.role, content |-> m.content])
    /\ UNCHANGED <<facts, cur, awaiting, updates, written, concurrent_updates>>

StoreTrimHistory(u, keep) ==
    /\ messages' = trim_history(messages, u, keep)
    /\ last' = [op |-> "trim_history", user_id |-> u, arg |-> keep,
                messages |-> messages]
    /\ UNCHANGED <<seq, facts, cur, awaiting, updates, added, written, concurrent_updates>>

StoreSetFacts(u, text) ==
    /\ facts' = set_facts(facts, u, text)
    /\ last' = [op |-> "set_facts", user_id |-> u, arg |-> text,
                facts |-> facts]
    /\ written' = [written EXCEPT ![u] = <<text>>]
    /\ UNCHANGED <<messages, seq, cur, awaiting, updates, added, concurrent_updates>>

NextStore ==
    \/ \E u \in Users, m \in StoreMsgInputs : StoreAddMessage(u, m)
    \/ \E u \in Users, keep \in 0..MaxKeep : StoreTrimHistory(u, keep)
    \/ \E u \in Users, text \in StoreFactInputs : StoreSetFacts(u, text)

SpecStore == InitStore /\ [][NextStore]_vars

---------------------------------------------------------------------------
(* Spec: the handlers *)

\* texts of plain (non-command) messages, as Telegram delivers them
MessageTexts == {<<"a">>, <<" ", "b", "\n">>}

\* texts of /remember messages; the command word is one element
RememberTexts ==
    {<<"/remember">>, <<"/remember", " ">>, <<"/remember", " ", "a">>,
     <<"/remember", " ", "b", " ">>}

\* what the completion endpoint may answer to the conversational call
ReplyCompletions == {Completion(TRUE, <<"r", " ">>), Completion(FALSE, <<>>)}

\* what the completion endpoint may answer to the extraction call
ExtractCompletions ==
    {Completion(TRUE, <<"f", "\n">>), Completion(TRUE, <<" ">>), Completion(FALSE, <<>>)}

\* the rows n calls of /start by user 1 leave in the database file
StartRows(n) ==
    {[id |-> i, user_id |-> 1, role |-> "assistant", content |-> GREETING] : i \in 1..n}

\* init_db() creates the tables if they do not exist: the file keeps what
\* earlier runs stored.
Init ==
    /\ \E n \in 0..MaxInit : messages = StartRows(n) /\ seq = n
    /\ facts = {}
    /\ cur = Idle
    /\ awaiting = {}
    /\ updates = 0
    /\ last = NoCall
    /\ added = <<>>
    /\ written = [u \in Users |-> <<>>]
    /\ concurrent_updates = FALSE

\* what no handler assigns: the bookkeeping of SpecStore and the setting of the
\* Application
Ghost == <<last, added, written, concurrent_updates>>

\* a dispatch that does not wait for the running handler to reach its await
CanDispatchPreemptive ==
    /\ concurrent_updates \/ awaiting = {}
    /\ updates < MaxUpdates

\* The Application of main() is built with its defaults: it takes the next
\* update only when the handler of the previous one has returned.  With
\* concurrent_updates every handler is a task of the one event loop: the next
\* is started when the loop is free, which it is when no handler runs or every
\* handler that has started is suspended at an await.
CanDispatch ==
    /\ cur = Idle
    /\ concurrent_updates \/ awaiting = {}
    /\ updates < MaxUpdates

Step(frame, pc, label) ==
    [frame EXCEPT !.pc = pc, !.trace = Append(@, label)]

\* the handler reaches its only await: reply_text(text) is called and the
\* coroutine is suspended, which frees the event loop
Suspend(frame, text) ==
    [Step(frame, "awaiting", "reply_text") EXCEPT !.reply = text]

(* handle_message *)

HM_Receive(u, raw) ==
    /\ CanDispatch
    /\ cur' = Frame("handle_message", u, Strip(raw))
    /\ updates' = updates + 1
    /\ UNCHANGED <<messages, seq, facts, awaiting, Ghost>>

HM_PersistInbound ==
    /\ cur.kind = "handle_message" /\ cur.pc = "received"
    /\ messages' = add_message(messages, seq, cur.user_id, "user", cur.user_text)
    /\ seq' = seq + 1
    /\ cur' = Step(cur, "persisted_inbound", "add_message:user")
    /\ UNCHANGED <<facts, awaiting, updates, Ghost>>

HM_AskAi(completion) ==
    /\ cur.kind = "handle_message" /\ cur.pc = "persisted_inbound"
    /\ LET r == ask_ai(facts, messages, cur.user_id, cur.user_text, completion)
           f == [cur EXCEPT !.request = r.request, !.ask_failed = ~completion.ok]
       IN  cur' = IF r.raised
                  THEN [Step(f, "raised", "ask_ai") EXCEPT !.raised = TRUE]
                  ELSE [Step(f, "completed", "ask_ai") EXCEPT !.assistant_text = r.text]
    /\ UNCHANGED <<messages, seq, facts, awaiting, updates, Ghost>>

HM_PersistOutbound ==
    /\ cur.kind = "handle_message" /\ cur.pc = "completed"
    /\ messages' = add_message(messages, seq, cur.user_id, "assistant", cur.assistant_text)
    /\ seq' = seq + 1
    /\ cur' = Step(cur, "persisted_outbound", "add_message:assistant")
    /\ UNCHANGED <<facts, awaiting, updates, Ghost>>

\* a handle_message that does not call trim_history
HM_TrimLeftOut ==
    /\ cur.kind = "handle_message" /\ cur.pc = "persisted_outbound"
    /\ cur' = [cur EXCEPT !.pc = "trimmed"]
    /\ UNCHANGED <<messages, seq, facts, awaiting, updates, Ghost>>

HM_Trim ==
    /\ cur.kind = "handle_message" /\ cur.pc = "persisted_outbound"
    /\ messages' = trim_history(messages, cur.user_id, SHORT_HISTORY_LIMIT)
    /\ cur' = Step(cur, "trimmed", "trim_history")
    /\ UNCHANGED <<seq, facts, awaiting, updates, Ghost>>

HM_MaybeExtract(completion) ==
    /\ cur.kind = "handle_message" /\ cur.pc = "trimmed"
    /\ LET count == Len(get_recent_messages(messages, cur.user_id, SHORT_HISTORY_LIMIT))
       IN  IF should_update_facts(count)
           THEN LET r == try_update_facts(facts, cur.user_id, completion)
                    f == [cur EXCEPT !.count = count,
                                     !.extractor_calls = @ + 1,
                                     !.extract_failed = ~completion.ok,
                                     !.raised = r.raised]
                IN  /\ facts' = r.facts
                    /\ cur' = Step(f, IF r.raised THEN "raised" ELSE "maybe_extracted",
                                   "update_facts_with_ai")
           ELSE /\ facts' = facts
                /\ cur' = Step([cur EXCEPT !.count = count], "maybe_extracted", "no_update")
    /\ UNCHANGED <<messages, seq, awaiting, updates, Ghost>>

HM_Reply ==
    /\ cur.kind = "handle_message" /\ cur.pc = "maybe_extracted"
    /\ awaiting' = awaiting \cup {Suspend(cur, cur.assistant_text)}
    /\ cur' = Idle
    /\ UNCHANGED <<messages, seq, facts, updates, Ghost>>

\* an exception leaves handle_message: the invocation is over, nothing was sent
HM_Propagate ==
    /\ cur.kind = "handle_message" /\ cur.pc = "raised"
    /\ cur' = Idle
    /\ UNCHANGED <<messages, seq, facts, awaiting, updates, Ghost>>

(* the commands: each runs to its await in one piece *)

Start(u) ==
    /\ CanDispatch
    /\ messages' = add_message(messages, seq, u, "assistant", GREETING)
    /\ seq' = seq + 1
    /\ awaiting' = awaiting \cup
           {Suspend(Step(Frame("start", u, <<>>), "added", "add_message:assistant"), GREETING)}
    /\ updates' = updates + 1
    /\ UNCHANGED <<facts, cur, Ghost>>

\* str.replace(old, "", 1): the text without the first occurrence of old
RECURSIVE RemoveFirst(_, _)
RemoveFirst(s, old) ==
    IF s = <<>> THEN <<>>
    ELSE IF Head(s) = old THEN Tail(s)
    ELSE <<Head(s)>> \o RemoveFirst(Tail(s), old)

\* a /remember that does not strip the stored facts first
remember_update_unstripped(stored, text) ==
    IF stored # <<>> THEN Strip(stored \o <<"\n">> \o text) ELSE text

\* current = get_facts(user_id).strip()
\* updated = (current + "\n" + text).strip() if current else text
remember_update(stored, text) ==
    LET current == Strip(stored)
    IN  IF current # <<>> THEN Strip(current \o <<"\n">> \o text) ELSE text

REMEMBER_USAGE == <<"?">>

REMEMBERED == <<"+">>

MEMORY_HEADER == <<"M", ":", "\n", "\n">>

MEMORY_EMPTY == <<"0">>

CLEARED == <<"-">>

Remember(u, raw) ==
    /\ CanDispatch
    /\ LET text == Strip(RemoveFirst(raw, "/remember"))
           f == Frame("remember", u, text)
       IN  IF text = <<>>
           THEN /\ facts' = facts
                /\ awaiting' = awaiting \cup {Suspend(f, REMEMBER_USAGE)}
           ELSE LET updated == remember_update(get_facts(facts, u), text)
                IN  /\ Len(Strip(get_facts(facts, u))) + Len(text) < MaxFactsLen
                    /\ facts' = set_facts(facts, u, updated)
                    /\ awaiting' = awaiting \cup
                           {Suspend(Step(f, "stored", "set_facts"), REMEMBERED)}
    /\ updates' = updates + 1
    /\ UNCHANGED <<messages, seq, cur, Ghost>>

Memory(u) ==
    /\ CanDispatch
    /\ LET stored == Strip(get_facts(facts, u))
           text == MEMORY_HEADER \o (IF stored # <<>> THEN stored ELSE MEMORY_EMPTY)
       IN  awaiting' = awaiting \cup {Suspend(Frame("memory", u, <<>>), text)}
    /\ updates' = updates + 1
    /\ UNCHANGED <<messages, seq, facts, cur, Ghost>>

\* a /clear_memory that deletes the user's row
ClearMemoryDeletesRow(u) ==
    /\ CanDispatch
    /\ facts' = {r \in facts : r.user_id # u}
    /\ awaiting' = awaiting \cup
           {Suspend(Step(Frame("clear_memory", u, <<>>), "stored", "set_facts"), CLEARED)}
    /\ updates' = updates + 1
    /\ UNCHANGED <<messages, seq, cur, Ghost>>

ClearMemory(u) ==
    /\ CanDispatch
    /\ facts' = set_facts(facts, u, <<>>)
    /\ awaiting' = awaiting \cup
           {Suspend(Step(Frame("clear_memory", u, <<>>), "stored", "set_facts"), CLEARED)}
    /\ updates' = updates + 1
    /\ UNCHANGED <<messages, seq, cur, Ghost>>

\* the await of a suspended handler completes and the handler returns
Resume(f) ==
    /\ f \in awaiting
    /\ awaiting' = awaiting \ {f}
    /\ UNCHANGED <<messages, seq, facts, cur, updates, Ghost>>

Next ==
    \/ \E u \in Users, raw \in MessageTexts : HM_Receive(u, raw)
    \/ HM_PersistInbound
    \/ \E c \in ReplyCompletions : HM_AskAi(c)
    \/ HM_PersistOutbound
    \/ HM_Trim
    \/ \E c \in ExtractCompletions : HM_MaybeExtract(c)
    \/ HM_Reply
    \/ HM_Propagate
    \/ \E u \in Users : Start(u)
    \/ \E u \in Users, raw \in RememberTexts : Remember(u, raw)
    \/ \E u \in Users : Memory(u)
    \/ \E u \in Users : ClearMemory(u)
    \/ \E f \in awaiting : Resume(f)

Spec == Init /\ [][Next]_vars

---------------------------------------------------------------------------
(* SpecMemory: the memory commands on a facts table with any stored text *)

\* facts texts a database file may hold for a user: empty, whitespace only,
\* one line, one line with whitespace around it
MemoryFactInputs == {<<>>, <<" ">>, <<"a">>, <<" ", "a", "\n">>}

\* the facts tables with at most one row per user and those texts
MemoryTables ==
    {t \in SUBSET {[user_id |-> u, facts |-> x] : u \in Users, x \in MemoryFactInputs} :
        \A r, q \in t : r.user_id = q.user_id => r = q}

InitMemory ==
    /\ messages = {}
    /\ seq = 0
    /\ facts \in MemoryTables
    /\ cur = Idle
    /\ awaiting = {}
    /\ updates = 0
    /\ last = NoCall
    /\ added = <<>>
    /\ written = [u \in Users |-> <<>>]
    /\ concurrent_updates = FALSE

NextMemory ==
    \/ \E u \in Users, raw \in RememberTexts : Remember(u, raw)
    \/ \E u \in Users : Memory(u)
    \/ \E u \in Users : ClearMemory(u)
    \/ \E f \in awaiting : Resume(f)

SpecMemory == InitMemory /\ [][NextMemory]_vars

---------------------------------------------------------------------------
(* SpecConcurrent: the handlers as concurrent tasks of one event loop *)

\* a database file with a short history of user 1, and an Application that
\* dispatches updates concurrently
InitConcurrent ==
    /\ \E n \in 0..MaxBacklog : messages = StartRows(n) /\ seq = n
    /\ facts = {}
    /\ cur = Idle
    /\ awaiting = {}
    /\ updates = 0
    /\ last = NoCall
    /\ added = <<>>
    /\ written = [u \in Users |-> <<>>]
    /\ concurrent_updates = TRUE

SpecConcurrent == InitConcurrent /\ [][Next]_vars

---------------------------------------------------------------------------
(* Claims about the handlers (Spec) *)

\* the handler invocations that exist: the running one and the suspended ones
Frames == awaiting \cup (IF cur = Idle THEN {} ELSE {cur})

\* the conversational turns that are past their extraction step
TurnsPastExtraction ==
    {f \in Frames : f.kind = "handle_message" /\ f.pc \in {"maybe_extracted", "awaiting"}}

RowsOf(tbl, u) == {r \in tbl : r.user_id = u}

\* C1 as stated: a turn entered with exactly 6 stored messages of the user runs
\* the Fact Extractor exactly once, and from 7 stored messages on no turn runs it
\* before the user's 12th stored message.
C1_TurnAfterSixExtracts ==
    \A f \in TurnsPastExtraction :
        /\ f.n0 = 6 => f.extractor_calls = 1
        /\ (f.n0 >= 7 /\ f.count < 12) => f.extractor_calls = 0

\* C1 amended: the turn entered with exactly 4 stored messages, which stores the
\* 5th and 6th, runs the Fact Extractor exactly once; the turn entered with exactly
\* 6 stored messages does not run it; from 7 stored messages on no turn runs it
\* before the turn that stores the user's 12th message, which runs it once.
C1_TurnReachingSixExtracts ==
    \A f \in TurnsPastExtraction :
        /\ f.n0 = 4 => f.extractor_calls = 1
        /\ f.n0 = 6 => f.extractor_calls = 0
        /\ (f.n0 >= 7 /\ f.count < 12) => f.extractor_calls = 0
        /\ f.n0 = 10 => (f.count = 12 /\ f.extractor_calls = 1)

\* a turn entered with 4 stored messages has sent its reply after one extractor run
C1_Witness ==
    \E f \in awaiting :
        f.kind = "handle_message" /\ f.n0 = 4 /\ f.count = 6 /\ f.extractor_calls = 1

\* C2: a turn runs update_facts_with_ai at most once, and it runs it exactly when
\* the number of records get_recent_messages(U, 20) returns, after both records of
\* the turn were added and trim_history(U, 20) has run, is a multiple of 6.
C2_ExtractIffMultipleOfSix ==
    \A f \in Frames :
        /\ f.extractor_calls <= 1
        /\ (f.kind = "handle_message" /\ f.pc \notin {"maybe_extracted", "awaiting"})
              => f.extractor_calls = 0
        /\ f \in TurnsPastExtraction =>
              /\ SubSeq(f.trace, 1, 4) =
                     <<"add_message:user", "ask_ai", "add_message:assistant", "trim_history">>
              /\ f.extractor_calls = 1 <=>
                     Len(get_recent_messages(messages, f.user_id, SHORT_HISTORY_LIMIT)) % 6 = 0

\* a turn whose trim deleted a row sent its reply without an extractor run, with
\* 20 records left
C2_Witness ==
    \E f \in awaiting :
        /\ f.kind = "handle_message" /\ f.n0 = 19 /\ f.extractor_calls = 0
        /\ Cardinality(RowsOf(messages, f.user_id)) = SHORT_HISTORY_LIMIT

\* C5: when the extraction completion of a turn fails, nothing raises out of
\* handle_message, the stored facts are what they were before the extractor step,
\* and the turn goes on to send the assistant reply.
C5_ExtractorFailureSwallowed ==
    \A f \in Frames :
        f.extract_failed =>
            /\ ~f.raised
            /\ f.pc \in {"maybe_extracted", "awaiting"}
            /\ facts = f.facts0
            /\ f.pc = "maybe_extracted" => ENABLED HM_Reply
            /\ f.pc = "awaiting" =>
                  f.reply = f.assistant_text /\ f.trace[Len(f.trace)] = "reply_text"

\* a turn of a user with stored facts has sent its reply after a failed extraction
C5_Witness ==
    \E f \in awaiting :
        /\ f.kind = "handle_message" /\ f.extract_failed /\ f.extractor_calls = 1
        /\ f.reply = <<"r">>
        /\ get_facts(facts, f.user_id) # <<>>

\* the record add_message(user_id, "user", user_text) of the turn of frame f
InboundRow(f) ==
    [id |-> f.seq0 + 1, user_id |-> f.user_id, role |-> "user", content |-> f.user_text]

\* C6: when the conversational completion of a turn fails, the error leaves
\* handle_message after the one call: no assistant record, no trim, no extractor
\* run, no reply, facts unchanged; the tables differ from those at the start of
\* the turn by the inbound user record alone.
C6_AskFailurePropagates ==
    \A f \in Frames :
        f.ask_failed =>
            /\ f = cur /\ f.pc = "raised" /\ f.raised
            /\ f.trace = <<"add_message:user", "ask_ai">>
            /\ f.extractor_calls = 0
            /\ f.reply = <<>> /\ f.assistant_text = <<>>
            /\ facts = f.facts0
            /\ messages = f.messages0 \cup {InboundRow(f)}
            /\ InboundRow(f) \notin f.messages0
            /\ ~ENABLED HM_PersistOutbound /\ ~ENABLED HM_Reply

\* the conversational call of a turn has failed for a user who has 20 records and
\* stored facts
C6_Witness ==
    /\ cur.kind = "handle_message" /\ cur.ask_failed /\ cur.pc = "raised"
    /\ cur.n0 = SHORT_HISTORY_LIMIT
    /\ get_facts(facts, cur.user_id) # <<>>

\* the steps of a turn
TurnSteps(extraction) ==
    <<"add_message:user", "ask_ai", "add_message:assistant", "trim_history",
      extraction, "reply_text">>

\* the place of a turn after k steps
TurnPlace(k) ==
    <<"received", "persisted_inbound", "completed", "persisted_outbound", "trimmed",
      "maybe_extracted", "awaiting">>[k + 1]

\* C7: a turn that does not fail takes the steps persist inbound, completion call,
\* persist assistant record, trim, conditional extraction, send reply in that order,
\* each once; the reply is sent once, after the assistant record is stored, the
\* history is trimmed and the extraction step is over.
C7_TurnStepsInOrder ==
    \A f \in Frames :
        (f.kind = "handle_message" /\ ~f.raised) =>
            /\ \E x \in {"update_facts_with_ai", "no_update"} :
                  f.trace = SubSeq(TurnSteps(x), 1, Len(f.trace))
            /\ f.pc = TurnPlace(Len(f.trace))
            /\ f.reply # <<>> => f.pc = "awaiting"
            /\ f.pc = "awaiting" =>
                  /\ f.reply = f.assistant_text
                  /\ [InboundRow(f) EXCEPT !.id = @ + 1, !.role = "assistant",
                                           !.content = f.assistant_text] \in messages
                  /\ Cardinality(RowsOf(messages, f.user_id)) <= SHORT_HISTORY_LIMIT
                  /\ f.extractor_calls = (IF f.trace[5] = "update_facts_with_ai" THEN 1 ELSE 0)

\* the second turn of a run, entered with 16 stored messages, has sent its reply
\* after an extractor run
C7_Witness ==
    \E f \in awaiting :
        /\ f.kind = "handle_message" /\ f.trace = TurnSteps("update_facts_with_ai")
        /\ f.n0 = 16 /\ updates = 2

\* C9: build_messages(U, t) is one system message, then the records of
\* get_recent_messages(U, 20) in order, then one user message with content t: its
\* length is 1 + min(20, n) + 1, and 2 with no facts and no history (the system
\* message then being the bare instruction).
C9_BuildMessagesShape ==
    \A u \in Users : \A t \in MessageTexts :
        LET msgs == build_messages(facts, messages, u, t)
            hist == get_recent_messages(messages, u, SHORT_HISTORY_LIMIT)
            n    == Cardinality(RowsOf(messages, u))
        IN  /\ Len(msgs) = 1 + Min(20, n) + 1
            /\ msgs[1].role = "system"
            /\ SubSeq(msgs[1].content, 1, Len(SYSTEM_PROMPT)) = SYSTEM_PROMPT
            /\ SubSeq(msgs, 2, Len(msgs) - 1) = hist
            /\ msgs[Len(msgs)] = [role |-> "user", content |-> t]
            /\ (get_facts(facts, u) = <<>> /\ n = 0) =>
                  msgs = <<[role |-> "system", content |-> SYSTEM_PROMPT],
                           [role |-> "user", content |-> t]>>

\* a user with stored facts has more than 20 records, the newest not a greeting
C9_Witness ==
    \E u \in Users :
        /\ Cardinality(RowsOf(messages, u)) > SHORT_HISTORY_LIMIT
        /\ get_facts(facts, u) # <<>>
        /\ \E r \in RowsOf(messages, u) : r.id = seq /\ r.role = "user"

\* the conversational turns, at any place
Turns == {f \in Frames : f.kind = "handle_message"}

\* C14: a turn entered with at least 18 records of the user ends with a post-trim
\* count of 20 and does not run the Fact Extractor; and no handler takes a user who
\* has at least 18 records below 18, so the same holds for every later turn.
C14_NoExtractionFromEighteen ==
    /\ \A f \in Turns :
          f.n0 >= 18 =>
              /\ f.extractor_calls = 0
              /\ f \in TurnsPastExtraction => f.count = 20
    /\ \A f \in Frames : \A u \in Users :
          Cardinality(RowsOf(f.messages0, u)) >= 18 =>
              Cardinality(RowsOf(messages, u)) >= 18

\* the second turn of a run was entered with 18 records, left by a turn that ran
\* the extractor, and has sent its reply without an extractor run
C14_Witness ==
    \E f \in awaiting :
        /\ f.kind = "handle_message" /\ f.n0 = 18 /\ f.count = 20
        /\ f.extractor_calls = 0 /\ updates = 2
        /\ get_facts(facts, f.user_id) = <<"f">>

\* C15: the message list of the conversational call ends with the inbound text
\* twice: the last history entry is the user record stored at the start of the
\* turn and the appended user message repeats it; a first turn with no facts and
\* no history sends 3 entries.
C15_InboundTextTwice ==
    \A f \in Turns :
        f.request # <<>> =>
            LET k == Len(f.request)
                inbound == [role |-> "user", content |-> f.user_text]
            IN  /\ k >= 3
                /\ f.request[k] = inbound
                /\ f.request[k - 1] = inbound
                /\ k = 1 + Min(SHORT_HISTORY_LIMIT, f.n0 + 1) + 1
                /\ (f.n0 = 0 /\ f.facts0 = {}) =>
                      f.request = <<[role |-> "system", content |-> SYSTEM_PROMPT],
                                    inbound, inbound>>

\* the conversational call of a turn has been made
C15_RequestSent ==
    \A f \in Turns : f.pc \notin {"received", "persisted_inbound"} => f.request # <<>>

\* a first turn with no facts and no history has made its call with 3 entries,
\* as the second update of a run
C15_Witness ==
    \E f \in Turns :
        /\ f.n0 = 0 /\ f.facts0 = {} /\ Len(f.request) = 3 /\ updates = 2
        /\ f.user_text = <<"b">>

\* C16: when a turn that did not fail sends its reply, the user has at most 20
\* records, whatever came before.
C16_AtMostLimitAtReply ==
    \A f \in Turns :
        f.pc = "awaiting" =>
            Cardinality(RowsOf(messages, f.user_id)) <= SHORT_HISTORY_LIMIT

\* between turns: two /start commands have taken a user from 20 to 22 records
C16_Witness ==
    /\ cur = Idle /\ awaiting = {} /\ updates = 2
    /\ seq = 22
    /\ Cardinality(RowsOf(messages, 1)) = 22

\* between turns: a failed turn has left a user with 21 records
C16_WitnessFailedTurn ==
    /\ cur = Idle /\ awaiting = {} /\ updates = 1
    /\ Cardinality(RowsOf(messages, 1)) = 21
    /\ \E r \in messages : r.id = seq /\ r.role = "user"

\* a turn entered with more than 20 records has sent its reply
C16_WitnessTrimmed ==
    \E f \in Turns : f.pc = "awaiting" /\ f.n0 = 21

\* C17: a handler run for user U leaves the records and the facts of every other
\* user as they were, and get_recent_messages(U, .) and get_facts(U) read rows of
\* U alone.
C17_UserIsolation ==
    /\ \A f \in Frames : \A v \in Users \ {f.user_id} :
          /\ RowsOf(messages, v) = RowsOf(f.messages0, v)
          /\ RowsOf(facts, v) = RowsOf(f.facts0, v)
    /\ \A u \in Users :
          /\ get_facts(facts, u) = get_facts(RowsOf(facts, u), u)
          /\ \A L \in {1, SHORT_HISTORY_LIMIT} :
                get_recent_messages(messages, u, L) =
                    get_recent_messages(RowsOf(messages, u), u, L)

\* a turn of user 2 has trimmed and run the extractor while user 1 has records
\* and facts
C17_Witness ==
    \E f \in Turns :
        /\ f.user_id = 2 /\ f.pc = "awaiting"
        /\ RowsOf(messages, 1) # {}
        /\ get_facts(facts, 1) # <<>>

---------------------------------------------------------------------------
(* Claims about the memory commands (SpecMemory) *)

\* the /remember invocations that stored a text and are at their reply
Remembered ==
    {f \in Frames : f.kind = "remember" /\ f.pc = "awaiting" /\ f.user_text # <<>>}

\* C11: /remember with non-empty text t makes t the new last line of the user's
\* facts: on absent, empty or whitespace-only facts they become t, on other facts f
\* they become stripped f, a newline, t; so t1 and then t2 on empty facts give
\* t1, newline, t2.
C11_RememberAppendsLine ==
    \A f \in Remembered :
        LET old == get_facts(f.facts0, f.user_id)
            new == get_facts(facts, f.user_id)
        IN  /\ f.trace = <<"set_facts", "reply_text">>
            /\ Strip(old) = <<>> => new = f.user_text
            /\ Strip(old) # <<>> => new = Strip(old) \o <<"\n">> \o f.user_text
            /\ (old = <<"a">> /\ f.user_text = <<"b">>) => new = <<"a", "\n", "b">>
            /\ \A r \in facts : r.user_id # f.user_id => r \in f.facts0

\* the second command of a run was a /remember that found the line a stored and
\* has stored the line b after it
C11_Witness ==
    \E f \in Remembered :
        /\ updates = 2
        /\ get_facts(f.facts0, f.user_id) = <<"a">>
        /\ get_facts(facts, f.user_id) = <<"a", "\n", "b">>

\* /remember has appended to facts that were stored with whitespace around them
C11_WitnessPadded ==
    \E f \in Remembered :
        /\ get_facts(f.facts0, f.user_id) = <<" ", "a", "\n">>
        /\ get_facts(facts, f.user_id) = <<"a", "\n", "b">>

\* C13: whatever the facts of U were, no record included, after /clear_memory
\* get_facts(U) is the empty text, and the record of U exists, holding the empty
\* text.
C13_ClearMemoryEmpties ==
    \A f \in Frames :
        (f.kind = "clear_memory" /\ f.pc = "awaiting") =>
            /\ get_facts(facts, f.user_id) = <<>>
            /\ {r \in facts : r.user_id = f.user_id} =
                   {[user_id |-> f.user_id, facts |-> <<>>]}
            /\ {r \in facts : r.user_id # f.user_id} =
                   {r \in f.facts0 : r.user_id # f.user_id}

\* /clear_memory has run for a user with no record, after it had run for a user
\* with stored text
C13_Witness ==
    \E f \in Frames :
        /\ f.kind = "clear_memory" /\ f.pc = "awaiting" /\ updates = 2
        /\ ~\E r \in f.facts0 : r.user_id = f.user_id
        /\ \E r \in f.facts0 : r.facts = <<>>

---------------------------------------------------------------------------
(* Claims about the stores (SpecStore) *)

\* how many rows of the set are newer (have a higher id) than r
NewerThan(rows, r) == Cardinality({q \in rows : q.id > r.id})

\* C3: trim_history(U, K) leaves exactly min(K, n) records of U, n being U's record
\* count before the call, and they are the min(K, n) records of U with the highest
\* ids; when n <= K nothing is deleted.
C3_TrimKeepsNewest ==
    last.op = "trim_history" =>
        LET before == RowsOf(last.messages, last.user_id)
            after  == RowsOf(messages, last.user_id)
            n      == Cardinality(before)
        IN  /\ Cardinality(after) = Min(last.arg, n)
            /\ after = {r \in before : NewerThan(before, r) < last.arg}
            /\ n <= last.arg => messages = last.messages

\* a trim with 1 <= K < n has just deleted a row of a user
C3_Witness ==
    /\ last.op = "trim_history"
    /\ last.arg >= 1
    /\ Cardinality(RowsOf(last.messages, last.user_id)) > last.arg
    /\ messages # last.messages

\* the add_message calls made for u, in call order, as get_recent_messages shows them
AddedFor(u) ==
    LET mine == SelectSeq(added, LAMBDA a : a.user_id = u)
    IN  [i \in 1..Len(mine) |-> [role |-> mine[i].role, content |-> mine[i].content]]

\* C4: after any add_message and trim_history calls, get_recent_messages(U, L) is
\* the min(L, n) records of U with the highest ids, oldest first, role and content
\* as stored; and while none of U's N added records was trimmed,
\* get_recent_messages(U, N) is those N records in the order they were added.
C4_RecentOldestFirst ==
    \A u \in Users :
        LET rows == RowsOf(messages, u)
        IN  /\ \A L \in 0..(MaxRows + 1) :
                  LET res == get_recent_messages(messages, u, L)
                      m   == Min(L, Cardinality(rows))
                  IN  /\ Len(res) = m
                      /\ \A i \in 1..m :
                            \E r \in rows :
                                /\ NewerThan(rows, r) = m - i
                                /\ res[i] = [role |-> r.role, content |-> r.content]
            /\ Cardinality(rows) = Len(AddedFor(u)) =>
                  get_recent_messages(messages, u, Len(AddedFor(u))) = AddedFor(u)

\* a user has two records of different roles left after a trim, so that a limit
\* of 1 cuts and a limit of 2 shows an order
C4_Witness ==
    \E u \in Users :
        /\ last.op = "trim_history"
        /\ Cardinality(RowsOf(messages, u)) = 2
        /\ Len(AddedFor(u)) = 3
        /\ get_recent_messages(messages, u, 2)[1].role # get_recent_messages(messages, u, 2)[2].role

\* C12: trim_history is idempotent: a second trim_history(U, K) right after the
\* first deletes nothing.
C12_TrimIdempotent ==
    last.op = "trim_history" =>
        trim_history(messages, last.user_id, last.arg) = messages

\* a trim that deleted a row of a user and left one, while the other user has a row
C12_Witness ==
    /\ last.op = "trim_history"
    /\ last.arg = 1
    /\ Cardinality(RowsOf(last.messages, last.user_id)) = 2
    /\ Cardinality(RowsOf(messages, last.user_id)) = 1
    /\ \E r \in messages : r.user_id # last.user_id

\* C8: the facts table holds at most one row per user; get_facts(U) is the text
\* of the latest set_facts(U, .) and the empty text when there was none; right
\* after set_facts(U, X), get_facts(U) is X and a second set_facts(U, X) would
\* change nothing.
C8_FactsRegister ==
    /\ \A u \in Users :
          /\ Cardinality({r \in facts : r.user_id = u}) <= 1
          /\ get_facts(facts, u) = (IF written[u] = <<>> THEN <<>> ELSE written[u][1])
          /\ written[u] = <<>> => ~\E r \in facts : r.user_id = u
    /\ last.op = "set_facts" =>
          /\ get_facts(facts, last.user_id) = last.arg
          /\ set_facts(facts, last.user_id, last.arg) = facts

\* set_facts has just overwritten the non-empty facts of one user while the other
\* user has a row of its own
C8_Witness ==
    /\ last.op = "set_facts"
    /\ get_facts(last.facts, last.user_id) # <<>>
    /\ get_facts(last.facts, last.user_id) # last.arg
    /\ \E r \in facts : r.user_id # last.user_id

\* C10: the system message of build_messages(U, t) carries the memory block exactly
\* when get_facts(U), stripped of whitespace, is not empty; with no fact record,
\* with facts cleared to the empty text or with whitespace-only facts it is the
\* bare system instruction.
C10_MemoryBlockIffFacts ==
    \A u \in Users : \A t \in StoreTextInputs :
        LET system == build_messages(facts, messages, u, t)[1].content
            stored == Strip(get_facts(facts, u))
        IN  /\ stored # <<>> =>
                  system = SYSTEM_PROMPT \o MEMORY_LABEL \o stored \o <<"\n">>
            /\ stored = <<>> => system = SYSTEM_PROMPT
            /\ (\A i \in 1..Len(get_facts(facts, u)) : get_facts(facts, u)[i] \in Whitespace)
                  => system = SYSTEM_PROMPT

\* one user has whitespace-only facts, the other facts with text, cleared before
C10_Witness ==
    /\ \E u \in Users : get_facts(facts, u) = <<" ">>
    /\ \E u \in Users : Strip(get_facts(facts, u)) = <<"a">>
    /\ last.op = "set_facts" /\ last.arg = <<"a", " ">>
    /\ \E r \in last.facts : r.user_id = last.user_id /\ r.facts = <<>>

---------------------------------------------------------------------------
(* Claims about concurrent dispatch (SpecConcurrent) *)

OutboundRow(f) ==
    [id |-> f.seq0 + 2, user_id |-> f.user_id, role |-> "assistant",
     content |-> f.assistant_text]

\* the messages table a running turn leaves when nothing but its own steps has
\* touched the table since it was entered
OwnMessages(f) ==
    LET inbound  == f.messages0 \cup {InboundRow(f)}
        outbound == inbound \cup {OutboundRow(f)}
    IN  CASE f.pc = "received" -> f.messages0
          [] f.pc \in {"persisted_inbound", "completed", "raised"} -> inbound
          [] f.pc = "persisted_outbound" -> outbound
          [] OTHER -> trim_history(outbound, f.user_id, SHORT_HISTORY_LIMIT)

\* the facts tables a running turn may leave: those it was entered with, or,
\* after an extractor run, those with the extractor's text written for its user
OwnFacts(f) ==
    {f.facts0} \cup
    (IF f.pc = "maybe_extracted" /\ f.extractor_calls = 1
     THEN {set_facts(f.facts0, f.user_id, Strip(c.content)) :
               c \in {x \in ExtractCompletions : x.ok}}
     ELSE {})

\* C18: with updates dispatched concurrently, the store operations of two
\* handlers do not interleave: while a turn runs the tables change by its own
\* steps alone; the user record and the assistant record of a turn have
\* consecutive ids; the Fact Extractor writes over the facts the turn was
\* entered with; and the handler dispatched after a /remember finds the facts
\* that /remember wrote.
C18_HandlersDoNotInterleave ==
    /\ cur # Idle =>
          /\ messages = OwnMessages(cur)
          /\ seq = cur.seq0 + Cardinality(OwnMessages(cur) \ cur.messages0)
          /\ facts \in OwnFacts(cur)
    /\ \A f \in Turns :
          f.pc \in {"persisted_outbound", "trimmed", "maybe_extracted", "awaiting"} =>
              \A r \in messages :
                  /\ r.id = f.seq0 + 1 => r = InboundRow(f)
                  /\ r.id = f.seq0 + 2 => r = OutboundRow(f)
    /\ \A f \in Remembered : \A g \in Frames :
          g.update_no = f.update_no + 1 =>
              get_facts(g.facts0, f.user_id) =
                  remember_update(get_facts(f.facts0, f.user_id), f.user_text)

\* a turn has stored both its records while an earlier turn of the same user is
\* suspended at its reply
C18_Witness ==
    /\ cur.kind = "handle_message" /\ cur.pc = "persisted_outbound"
    /\ \E f \in awaiting :
          /\ f.kind = "handle_message" /\ f.user_id = cur.user_id
          /\ InboundRow(cur).id = OutboundRow(f).id + 1
          /\ {InboundRow(f), OutboundRow(f), InboundRow(cur), OutboundRow(cur)}
                 \subseteq messages

\* two /remember of one user are suspended at their replies and both lines are
\* stored
C18_WitnessRemember ==
    \E f, g \in Remembered \cap awaiting :
        /\ f.user_id = g.user_id /\ g.update_no = f.update_no + 1
        /\ get_facts(facts, f.user_id) = f.user_text \o <<"\n">> \o g.user_text

\* a turn runs the Fact Extractor over facts that a /remember, still suspended at
\* its reply, has written
C18_WitnessExtractor ==
    /\ cur.kind = "handle_message" /\ cur.pc = "maybe_extracted"
    /\ cur.extractor_calls = 1 /\ facts # cur.facts0
    /\ \E f \in Remembered \cap awaiting : f.user_id = cur.user_id

===========================================================================
